---- MODULE Spec2Model ----
(***************************************************************************)
(* Model of the MDX -> Markdown documentation concatenator                 *)
(* (.storybook/preview.tsx, script part, lines 35-250).                    *)
(*                                                                         *)
(* Text representation.  A JavaScript string is modelled as the non-empty  *)
(* sequence of its "\n"-separated lines (the empty string is the sequence  *)
(* holding one empty line); a line is the sequence of its character runs   *)
(* ("tokens"): " " is one whitespace character, the other tokens are runs  *)
(* of non-whitespace text that the code's prefix tests either match whole  *)
(* or not at all.                                                          *)
(***************************************************************************)
EXTENDS Integers, Sequences, FiniteSets, TLC

\* ------------------------------------------------------------------ bounds
\* Longest text handed to the line filter, in lines.
MaxLines == 4
\* Number of times the line filter is run on its own output.
MaxPasses == 2
\* Most blocks in a fragment handed to convertMdxToMarkdown.
MaxBlocks == 3
\* Number of runs of concatenateDocumentation over the same directories.
MaxRuns == 2

\* The line filter, one call at a time.
\* (input: the text of the first call; kept, trace: bookkeeping, see LoopBody;
\* in a run of concatenateDocumentation skipBlock holds what the last call
\* of the filter left in it)
VARIABLES input, content, lines, i, skipBlock, filteredLines, kept, trace, fpc,
          filterResult, pass

fvars == <<input, content, lines, i, skipBlock, filteredLines, kept, trace, fpc,
           filterResult, pass>>

\* One call of convertMdxToMarkdown (markdownContent and convResult carry, next
\* to the text, the source position of every line; failed: the catch ran).
VARIABLES mdxContent, cpc, tree, markdownContent, convResult, failed

cvars == <<mdxContent, cpc, tree, markdownContent, convResult, failed>>

\* One run of concatenateDocumentation after another.  dirs: the two category
\* directories; outputFile: docs/ai-prompt.md; listed: what readdir returned;
\* mdxFiles: backgroundMdxFiles / antiPatternsMdxFiles; cat, fileIdx: the category
\* and the file the run is at; readLog, convLog, writeCalls: the calls of
\* readFile, convertMdxToMarkdown and writeFile made by the run; exitCode: "none"
\* while the process runs, then its exit status; prevListed: what readdir
\* returned in the run before; prevOutput: docs/ai-prompt.md as
\* the run before left it.
VARIABLES dirs, outputFile, pc, cat, fileIdx, listed, mdxFiles, fileContent,
          concatenatedContent, totalFiles, exitCode, readLog, convLog,
          writeCalls, runs, prevListed, prevOutput

rvars == <<dirs, outputFile, pc, cat, fileIdx, listed, mdxFiles, fileContent,
           concatenatedContent, totalFiles, exitCode, readLog, convLog,
           writeCalls, runs, prevListed, prevOutput>>

vars == <<fvars, cvars, rvars>>

\* ------------------------------------------------------------ line vocabulary
Sp == " "
\* The text "(robot emoji) *For Humans only*:" of the marker, one token (the
\* emoji is written out as a word here).
HumansOnlyText == "ROBOT *For Humans only*:"
EmptyLine == <<>>
SpaceLine == <<Sp>>
TextLine == <<"text">>
MarkerLine == <<">", Sp, HumansOnlyText, Sp, "note">>
QuoteLine == <<">", Sp, "quote">>
IndentedQuoteLine == <<Sp, ">", Sp, "quote">>
StorybookImportLine ==
  <<"import ", "{", "Meta", "}", " from ", "'", "@storybook", "/blocks'">>
ReactImportLine == <<"import ", "React", " from ", "'react'">>
MetaLine == <<"<Meta ", "title='x'", " />">>
\* The two lines of an import declaration that spans lines.
ImportOpenLine == <<"import ", "{">>
ImportCloseLine == <<"Meta", "}", " from ", "'", "@storybook", "/blocks'">>
ExportLine == <<"export ", "const x = 1">>
\* A self-closing component tag, and the same tag left open (unbalanced).
DemoLine == <<"<Demo ", "prop", " />">>
UnclosedLine == <<"<Demo ", "prop">>
\* The self-closing tag inside a blockquote.
QuotedDemoLine == <<">", Sp, "<Demo ", "prop", " />">>
BulletLine == <<"- ", "item">>
StarBulletLine == <<"* ", "item">>
\* A code fence (three backquotes), one token.
FenceText == "FENCE"
FenceLine == <<FenceText>>

FilterLines ==
  { EmptyLine, SpaceLine, TextLine, MarkerLine, QuoteLine, IndentedQuoteLine,
    StorybookImportLine, ReactImportLine, MetaLine }

\* ------------------------------------------------------------ string helpers
\* String.prototype.trim on one line: strips leading and trailing whitespace.
RECURSIVE TrimStart(_)
TrimStart(l) ==
  IF l # <<>> /\ Head(l) = Sp THEN TrimStart(Tail(l)) ELSE l

RECURSIVE TrimEnd(_)
TrimEnd(l) ==
  IF l # <<>> /\ l[Len(l)] = Sp THEN TrimEnd(SubSeq(l, 1, Len(l) - 1)) ELSE l

Trim(l) == TrimEnd(TrimStart(l))

\* String.prototype.startsWith, the prefix given as a token sequence.
StartsWith(l, p) == Len(l) >= Len(p) /\ SubSeq(l, 1, Len(p)) = p

\* String.prototype.includes for a one-token needle.
Includes(l, tok) == \E k \in 1..Len(l) : l[k] = tok

\* content.split("\n"): a string is held as its sequence of lines already, and
\* split never returns an empty array.
Split(s) == s

\* filteredLines.join("\n"): the empty array joins to the empty string, which
\* is the same string as the array holding one empty line.
Join(ls) == IF ls = <<>> THEN <<EmptyLine>> ELSE ls

\* a + b on strings: the last line of a continues with the first line of b.
Concat(a, b) ==
  SubSeq(a, 1, Len(a) - 1) \o << a[Len(a)] \o b[1] >> \o Tail(b)

\* All sequences over S of length lo..hi.
SeqsUpTo(S, lo, hi) == UNION { [1..n -> S] : n \in lo..hi }

\* ---------------------------------------------- removeHumanOnlyBlockquotesManual
ImportPrefix == <<"import ">>
StorybookToken == "@storybook"
MetaPrefix == <<"<Meta ">>
HumansOnlyPrefix == <<">", Sp, HumansOnlyText>>
BlockquotePrefix == <<">">>

IsStorybookImport(line) ==
  StartsWith(Trim(line), ImportPrefix) /\ Includes(line, StorybookToken)

IsMeta(line) == StartsWith(Trim(line), MetaPrefix)

IsHumansOnlyMarker(line) == StartsWith(Trim(line), HumansOnlyPrefix)

\* Variant: the end-of-block test on the raw line instead of the trimmed one.
EndsSkipBlockRaw(line) ==
  Trim(line) = <<>> \/ ~StartsWith(line, BlockquotePrefix)

EndsSkipBlock(line) ==
  Trim(line) = <<>> \/ ~StartsWith(Trim(line), BlockquotePrefix)

\* State of the loop: skipBlock, filteredLines, and (bookkeeping only) the
\* indices of the pushed lines and the value of skipBlock after every
\* iteration.
\* Variant: skipBlock declared outside the function, so a call starts with
\* what the call before left in it.
FilterInitShared ==
  [skipBlock |-> skipBlock, filteredLines |-> <<>>, kept |-> <<>>, trace |-> <<>>]

\* Lines 101-102.
FilterInit ==
  [skipBlock |-> FALSE, filteredLines |-> <<>>, kept |-> <<>>, trace |-> <<>>]

\* Variant: the skip-block test placed before the import and Meta tests.
LoopBodySkipFirst(st, line, idx) ==
  IF IsHumansOnlyMarker(line) THEN
    [st EXCEPT !.skipBlock = TRUE, !.trace = Append(@, TRUE)]
  ELSE IF st.skipBlock THEN
    IF EndsSkipBlock(line)
    THEN [st EXCEPT !.skipBlock = FALSE,
                    !.filteredLines = Append(@, line),
                    !.kept = Append(@, idx),
                    !.trace = Append(@, FALSE)]
    ELSE [st EXCEPT !.trace = Append(@, TRUE)]
  ELSE IF IsStorybookImport(line) \/ IsMeta(line) THEN
    [st EXCEPT !.trace = Append(@, st.skipBlock)]
  ELSE
    [st EXCEPT !.filteredLines = Append(@, line),
               !.kept = Append(@, idx),
               !.trace = Append(@, FALSE)]

\* Variant: a marker line flips skipBlock instead of setting it.
LoopBodyToggle(st, line, idx) ==
  IF IsStorybookImport(line) \/ IsMeta(line) THEN
    [st EXCEPT !.trace = Append(@, st.skipBlock)]
  ELSE IF IsHumansOnlyMarker(line) THEN
    [st EXCEPT !.skipBlock = ~st.skipBlock, !.trace = Append(@, ~st.skipBlock)]
  ELSE IF st.skipBlock THEN
    IF EndsSkipBlock(line)
    THEN [st EXCEPT !.skipBlock = FALSE,
                    !.filteredLines = Append(@, line),
                    !.kept = Append(@, idx),
                    !.trace = Append(@, FALSE)]
    ELSE [st EXCEPT !.trace = Append(@, TRUE)]
  ELSE
    [st EXCEPT !.filteredLines = Append(@, line),
               !.kept = Append(@, idx),
               !.trace = Append(@, FALSE)]

\* Variant: the "continue" that ends the skip-block branch is missing, so
\* the line is pushed by the last statement of the loop as well.
LoopBodyNoContinue(st, line, idx) ==
  IF IsStorybookImport(line) \/ IsMeta(line) THEN
    [st EXCEPT !.trace = Append(@, st.skipBlock)]
  ELSE IF IsHumansOnlyMarker(line) THEN
    [st EXCEPT !.skipBlock = TRUE, !.trace = Append(@, TRUE)]
  ELSE IF st.skipBlock THEN
    IF EndsSkipBlock(line)
    THEN [st EXCEPT !.skipBlock = FALSE,
                    !.filteredLines = @ \o <<line, line>>,
                    !.kept = @ \o <<idx, idx>>,
                    !.trace = Append(@, FALSE)]
    ELSE [st EXCEPT !.filteredLines = Append(@, line),
                    !.kept = Append(@, idx),
                    !.trace = Append(@, TRUE)]
  ELSE
    [st EXCEPT !.filteredLines = Append(@, line),
               !.kept = Append(@, idx),
               !.trace = Append(@, FALSE)]

\* Variant: the trimmed line is pushed.
LoopBodyTrimmed(st, line, idx) ==
  IF IsStorybookImport(line) \/ IsMeta(line) THEN
    [st EXCEPT !.trace = Append(@, st.skipBlock)]
  ELSE IF IsHumansOnlyMarker(line) THEN
    [st EXCEPT !.skipBlock = TRUE, !.trace = Append(@, TRUE)]
  ELSE IF st.skipBlock THEN
    IF EndsSkipBlock(line)
    THEN [st EXCEPT !.skipBlock = FALSE,
                    !.filteredLines = Append(@, Trim(line)),
                    !.kept = Append(@, idx),
                    !.trace = Append(@, FALSE)]
    ELSE [st EXCEPT !.trace = Append(@, TRUE)]
  ELSE
    [st EXCEPT !.filteredLines = Append(@, Trim(line)),
               !.kept = Append(@, idx),
               !.trace = Append(@, FALSE)]

\* One iteration of the for loop on lines[idx] = line.
LoopBody(st, line, idx) ==
  IF IsStorybookImport(line) THEN
    [st EXCEPT !.trace = Append(@, st.skipBlock)]
  ELSE IF IsMeta(line) THEN
    [st EXCEPT !.trace = Append(@, st.skipBlock)]
  ELSE IF IsHumansOnlyMarker(line) THEN
    [st EXCEPT !.skipBlock = TRUE, !.trace = Append(@, TRUE)]
  ELSE IF st.skipBlock THEN
    IF EndsSkipBlock(line)
    THEN [st EXCEPT !.skipBlock = FALSE,
                    !.filteredLines = Append(@, line),
                    !.kept = Append(@, idx),
                    !.trace = Append(@, FALSE)]
    ELSE [st EXCEPT !.trace = Append(@, TRUE)]
  ELSE
    [st EXCEPT !.filteredLines = Append(@, line),
               !.kept = Append(@, idx),
               !.trace = Append(@, FALSE)]

RECURSIVE FilterLoop(_, _, _)
FilterLoop(st, ls, idx) ==
  IF idx > Len(ls) THEN st
  ELSE FilterLoop(LoopBody(st, ls[idx], idx), ls, idx + 1)

\* The loop state at the end of a whole call.
FilterRun(text) == FilterLoop(FilterInit, Split(text), 1)

removeHumanOnlyBlockquotesManual(text) ==
  Join(FilterRun(text).filteredLines)

\* ------------------------------------------------------ unified().process()
\* The remark-parse + remark-mdx parser on the flow (block) level.  A parse
\* yields [ok |-> TRUE, children |-> the top-level nodes] or [ok |-> FALSE]
\* (the parser throws).  A node holds its type, the positions first..last of
\* its source lines, and these lines.  Blocks are delimited by blank lines
\* (and code blocks by their fences).
ParseFailure == [ok |-> FALSE, children |-> <<>>]

IsBlank(l) == Trim(l) = <<>>

IsFence(l) == StartsWith(Trim(l), <<FenceText>>)

\* An import/export declaration starts at the first column of a line.
IsEsmStart(l) == StartsWith(l, <<"import ">>) \/ StartsWith(l, <<"export ">>)

JsxOpenTokens == {"<Meta ", "<Demo "}

IsJsxStart(l) == Trim(l) # <<>> /\ Head(Trim(l)) \in JsxOpenTokens

\* Last line of the run of non-blank lines that starts at k.
RECURSIVE ChunkEnd(_, _)
ChunkEnd(ls, k) ==
  IF k < Len(ls) /\ ~IsBlank(ls[k + 1]) THEN ChunkEnd(ls, k + 1) ELSE k

\* The closing fence at or after j, or the last line when the fence is never
\* closed (the code block then runs to the end of the document).
RECURSIVE FenceEnd(_, _)
FenceEnd(ls, j) ==
  IF j >= Len(ls) THEN Len(ls)
  ELSE IF IsFence(ls[j]) THEN j
  ELSE FenceEnd(ls, j + 1)

RECURSIVE CountToken(_, _)
CountToken(l, tok) ==
  IF l = <<>> THEN 0
  ELSE (IF Head(l) = tok THEN 1 ELSE 0) + CountToken(Tail(l), tok)

RECURSIVE CountInLines(_, _)
CountInLines(ls, tok) ==
  IF ls = <<>> THEN 0
  ELSE CountToken(Head(ls), tok) + CountInLines(Tail(ls), tok)

\* The declaration is handed to the JavaScript parser: its braces balance.
ValidEsm(ls) == CountInLines(ls, "{") = CountInLines(ls, "}")

\* Every tag opened in the block is closed in it.
ValidJsx(ls) ==
  \A k \in 1..Len(ls) :
    IsJsxStart(ls[k]) => Trim(ls[k])[Len(Trim(ls[k]))] = " />"

NodeType(l) ==
  IF IsFence(l) THEN "code"
  ELSE IF IsEsmStart(l) THEN "mdxjsEsm"
  ELSE IF IsJsxStart(l) THEN "mdxJsxFlowElement"
  ELSE IF StartsWith(Trim(l), BlockquotePrefix) THEN "blockquote"
  ELSE IF StartsWith(Trim(l), <<"- ">>) \/ StartsWith(Trim(l), <<"* ">>) THEN "list"
  ELSE "paragraph"

\* Blockquotes and lists hold blocks of their own.
IsContainer(type) == type \in {"blockquote", "list"}

\* A line of a container without the container's marker in front.
Unmarked(type, l) ==
  IF type = "blockquote" /\ StartsWith(Trim(l), BlockquotePrefix)
  THEN TrimStart(Tail(Trim(l)))
  ELSE IF type = "list" /\ (StartsWith(Trim(l), <<"- ">>) \/ StartsWith(Trim(l), <<"* ">>))
  THEN Tail(Trim(l))
  ELSE Trim(l)

\* Declarations are recognised at the top level of the document only.
NestedType(l) == IF NodeType(l) = "mdxjsEsm" THEN "paragraph" ELSE NodeType(l)

\* The blocks inside a container whose lines ls start at position base of
\* the document; any other node has no block children.
RECURSIVE ChildrenOf(_, _, _)
RECURSIVE ScanNested(_, _, _, _)
ChildrenOf(type, ls, base) ==
  IF IsContainer(type)
  THEN ScanNested([j \in 1..Len(ls) |-> Unmarked(type, ls[j])], 1, base, <<>>)
  ELSE <<>>

MkNested(ls, k, e, base) ==
  [type |-> NestedType(ls[k]), first |-> base + k - 1, last |-> base + e - 1,
   lines |-> SubSeq(ls, k, e),
   children |-> ChildrenOf(NestedType(ls[k]), SubSeq(ls, k, e), base + k - 1)]

ScanNested(ls, k, base, acc) ==
  IF k > Len(ls) THEN acc
  ELSE IF IsBlank(ls[k]) THEN ScanNested(ls, k + 1, base, acc)
  ELSE
    LET e == IF IsFence(ls[k]) THEN FenceEnd(ls, k + 1) ELSE ChunkEnd(ls, k)
    IN ScanNested(ls, e + 1, base, Append(acc, MkNested(ls, k, e, base)))

MkNode(ls, k, e) ==
  [type |-> NodeType(ls[k]), first |-> k, last |-> e, lines |-> SubSeq(ls, k, e),
   children |-> ChildrenOf(NodeType(ls[k]), SubSeq(ls, k, e), k)]

\* The blocks of a text, in order.
RECURSIVE ScanFlow(_, _, _)
ScanFlow(ls, k, acc) ==
  IF k > Len(ls) THEN acc
  ELSE IF IsBlank(ls[k]) THEN ScanFlow(ls, k + 1, acc)
  ELSE
    LET e == IF IsFence(ls[k]) THEN FenceEnd(ls, k + 1) ELSE ChunkEnd(ls, k)
    IN ScanFlow(ls, e + 1, Append(acc, MkNode(ls, k, e)))

\* A block the parser accepts: code is literal; a declaration must be valid
\* JavaScript; tags must be closed wherever else they occur, in the blocks
\* of a container too.
RECURSIVE ValidNode(_)
ValidNode(node) ==
  /\ node.type = "mdxjsEsm" => ValidEsm(node.lines)
  /\ node.type # "code" => ValidJsx(node.lines)
  /\ \A k \in 1..Len(node.children) : ValidNode(node.children[k])

ParseMdx(text) ==
  LET nodes == ScanFlow(Split(text), 1, <<>>)
  IN IF \A k \in 1..Len(nodes) : ValidNode(nodes[k])
     THEN [ok |-> TRUE, children |-> nodes]
     ELSE ParseFailure

\* Variants of the predicate: embedded components only, declarations only.
KeepsNodeNoEsm(node) == node.type # "mdxJsxFlowElement"

KeepsNodeNoJsx(node) == node.type # "mdxjsEsm"

\* Lines 69-73: the predicate of tree.children.filter.
KeepsNode(node) ==
  node.type # "mdxjsEsm" /\ node.type # "mdxJsxFlowElement"

\* Variant: the two node types are removed below the root's children too.
NodeFilterDeep(children) ==
  LET top == SelectSeq(children, KeepsNode)
  IN [k \in 1..Len(top) |->
       [top[k] EXCEPT !.children = SelectSeq(@, KeepsNode)]]

\* Lines 66-74: the transformer; the root always has children.
NodeFilter(children) == SelectSeq(children, KeepsNode)

\* remark-stringify of one line of a node: list items get the "*" bullet,
\* blockquote lines the "> " prefix, paragraph lines lose the whitespace
\* around them; code and the MDX constructs are written as they are.  The
\* lines of a container are the lines of its blocks behind its marker.
StringifyLine(type, l) ==
  IF type = "list" THEN
    IF StartsWith(Trim(l), <<"- ">>) THEN <<"* ">> \o Tail(Trim(l)) ELSE Trim(l)
  ELSE IF type = "blockquote" THEN
    IF StartsWith(Trim(l), BlockquotePrefix)
    THEN <<">", Sp>> \o TrimStart(Tail(Trim(l)))
    ELSE <<">", Sp>> \o Trim(l)
  ELSE IF type = "paragraph" THEN Trim(l)
  ELSE l

\* A text with, for every line, the position of the source line it renders
\* (0 for a line the serializer adds).
Annotated(str, src) == [str |-> str, src |-> src]

StringifyNode(node) ==
  LET n == Len(node.lines)
      closed == node.type # "code" \/ (n > 1 /\ IsFence(node.lines[n]))
      body == Annotated([k \in 1..n |-> StringifyLine(node.type, node.lines[k])],
                        [k \in 1..n |-> node.first + k - 1])
  IN IF closed THEN body
     ELSE Annotated(Append(body.str, FenceLine), Append(body.src, 0))

\* Blocks are joined by one blank line; the document ends with a line feed
\* (the empty line after the last "\n"); an empty tree gives the empty string.
RECURSIVE StringifyFlow(_, _)
StringifyFlow(children, k) ==
  IF k > Len(children) THEN Annotated(<<EmptyLine>>, <<0>>)
  ELSE LET b == StringifyNode(children[k])
           rest == StringifyFlow(children, k + 1)
       IN IF k < Len(children)
          THEN Annotated(b.str \o <<EmptyLine>> \o rest.str, b.src \o <<0>> \o rest.src)
          ELSE Annotated(b.str \o rest.str, b.src \o rest.src)

Stringify(children) == StringifyFlow(children, 1)

\* The line filter on an annotated text.
FilterAnnotated(a) ==
  LET r == FilterRun(a.str)
  IN Annotated(Join(r.filteredLines),
               IF r.kept = <<>> THEN <<0>>
               ELSE [k \in 1..Len(r.kept) |-> a.src[r.kept[k]]])

\* A text as read from a file: every line is its own source.
Source(text) == Annotated(text, [k \in 1..Len(text) |-> k])

\* Variant: the handler returns the text as it is.
CatchResultUnfiltered(a) == a

\* Line 91: the catch handler's result.
CatchResult(a) == FilterAnnotated(a)

\* Lines 56-93, the whole call.
convertAnnotated(text) ==
  LET parsed == ParseMdx(text)
  IN IF parsed.ok
     THEN FilterAnnotated(Stringify(NodeFilter(parsed.children)))
     ELSE CatchResult(Source(text))

convertMdxToMarkdown(text) == convertAnnotated(text).str

\* Lines 82, 91: skipBlock at the end of the call of the line filter that
\* convertMdxToMarkdown(text) makes.
LastSkipBlock(text) ==
  LET parsed == ParseMdx(text)
  IN FilterRun(IF parsed.ok THEN Stringify(NodeFilter(parsed.children)).str
               ELSE text).skipBlock

\* ------------------------------------------------------ file names, sorting
\* A file name is the sequence of its characters.
Chars == {".", "a", "b", "d", "m", "t", "x", "z"}

\* UTF-16 code units, which Array.prototype.sort compares.
CharCode(c) ==
  CASE c = "." -> 46 [] c = "a" -> 97 [] c = "b" -> 98 [] c = "d" -> 100
    [] c = "m" -> 109 [] c = "t" -> 116 [] c = "x" -> 120 [] c = "z" -> 122

MdxSuffix == <<".", "m", "d", "x">>

\* String.prototype.endsWith
EndsWith(name, suffix) ==
  /\ Len(name) >= Len(suffix)
  /\ SubSeq(name, Len(name) - Len(suffix) + 1, Len(name)) = suffix

\* Lines 165, 197: the predicate of the filter on the listing.
IsMdxFile(file) == EndsWith(file, MdxSuffix)

\* a sorts before b: code unit by code unit, a proper prefix first.
RECURSIVE NameLess(_, _)
NameLess(a, b) ==
  IF b = <<>> THEN FALSE
  ELSE IF a = <<>> THEN TRUE
  ELSE IF CharCode(Head(a)) # CharCode(Head(b))
       THEN CharCode(Head(a)) < CharCode(Head(b))
  ELSE NameLess(Tail(a), Tail(b))

RECURSIVE InsertSorted(_, _)
InsertSorted(sorted, x) ==
  IF sorted = <<>> THEN <<x>>
  ELSE IF NameLess(x, Head(sorted)) THEN <<x>> \o sorted
  ELSE <<Head(sorted)>> \o InsertSorted(Tail(sorted), x)

RECURSIVE SortFrom(_, _)
SortFrom(names, acc) ==
  IF names = <<>> THEN acc
  ELSE SortFrom(Tail(names), InsertSorted(acc, Head(names)))

\* Variant: the listing is used in the order readdir gave.
Unsorted(names) == names

\* Variant: descending order.
SortNamesDescending(names) ==
  LET asc == SortFrom(names, <<>>)
  IN [n \in 1..Len(asc) |-> asc[Len(asc) + 1 - n]]

\* Lines 166, 198: Array.prototype.sort with the default comparison.
SortNames(names) == SortFrom(names, <<>>)

\* Lines 164-166, 196-198.
MdxFilesOf(listing) == SortNames(SelectSeq(listing, IsMdxFile))

\* --------------------------------------------------- the texts of the output
Banner ==
  << <<"<!-- This file is auto-generated. Do not edit manually. -->">>,
     EmptyLine, EmptyLine >>

HeaderOf(c) ==
  IF c = "background"
  THEN << <<"# ", "Background">>, EmptyLine, EmptyLine >>
  ELSE << <<"# ", "Anti-patterns">>, EmptyLine, EmptyLine >>

\* "\n\n"
Separator == <<EmptyLine, EmptyLine, EmptyLine>>

EmptyString == <<EmptyLine>>

\* concatenatedContent is held as the sequence of the strings appended to
\* it, each with what it is (banner, header, fragment or separator, and of
\* which category and file); the string itself is their concatenation.
Chunk(kind, c, file, str) == [kind |-> kind, cat |-> c, file |-> file, str |-> str]

RECURSIVE FlattenFrom(_, _)
FlattenFrom(chunks, acc) ==
  IF chunks = <<>> THEN acc
  ELSE FlattenFrom(Tail(chunks), Concat(acc, Head(chunks).str))

Flatten(chunks) == FlattenFrom(chunks, EmptyString)

\* Line 225: !s.trim(), the string holds white space only.
IsBlankString(str) == \A n \in 1..Len(str) : IsBlank(str[n])

\* ------------------------------------- the parts a specification leaves idle
FilterIdle ==
  /\ input = <<EmptyLine>> /\ content = <<EmptyLine>> /\ lines = <<>> /\ i = 0
  /\ skipBlock = FALSE /\ filteredLines = <<>> /\ kept = <<>> /\ trace = <<>>
  /\ fpc = "idle" /\ filterResult = <<EmptyLine>> /\ pass = 0

NoText == Annotated(<<EmptyLine>>, <<0>>)

ConvertIdle ==
  /\ mdxContent = <<EmptyLine>> /\ cpc = "idle" /\ tree = <<>>
  /\ markdownContent = NoText /\ convResult = NoText /\ failed = FALSE

Categories == {"background", "anti-patterns"}

NoFile == [exists |-> FALSE, data |-> EmptyString]

NoListing == [c \in Categories |-> <<>>]

\* The local state at the start of a run.
RunStart ==
  /\ pc = "start" /\ cat = "background" /\ fileIdx = 0
  /\ listed = NoListing /\ mdxFiles = NoListing
  /\ fileContent = EmptyString /\ concatenatedContent = <<>>
  /\ totalFiles = 0 /\ exitCode = "none"
  /\ readLog = <<>> /\ convLog = <<>> /\ writeCalls = 0

RunIdle ==
  /\ dirs = [c \in Categories |-> [exists |-> FALSE, files |-> <<>>]]
  /\ outputFile = NoFile
  /\ RunStart
  /\ runs = 0 /\ prevListed = NoListing /\ prevOutput = NoFile

\* ------------------------------------------------- the line filter, stepwise
FilterTexts == SeqsUpTo(FilterLines, 1, MaxLines)

InitFilter ==
  /\ input \in FilterTexts
  /\ content = input
  /\ lines = <<>> /\ i = 0
  /\ skipBlock = FALSE /\ filteredLines = <<>> /\ kept = <<>> /\ trace = <<>>
  /\ fpc = "call" /\ filterResult = <<EmptyLine>> /\ pass = 1
  /\ ConvertIdle
  /\ RunIdle

\* Lines 100-102: split the text, start with an empty result and not skipping
\* (i counts from 1 here, lines[1] being the code's lines[0]).
FilterEnter ==
  /\ fpc = "call"
  /\ lines' = Split(content)
  /\ i' = 1
  /\ skipBlock' = FilterInit.skipBlock
  /\ filteredLines' = FilterInit.filteredLines
  /\ kept' = FilterInit.kept
  /\ trace' = FilterInit.trace
  /\ fpc' = "loop"
  /\ UNCHANGED <<input, content, filterResult, pass>>
  /\ UNCHANGED <<cvars, rvars>>

\* Lines 104-133: one iteration of the loop.
FilterIterate ==
  /\ fpc = "loop"
  /\ i <= Len(lines)
  /\ LET st == LoopBody([skipBlock |-> skipBlock, filteredLines |-> filteredLines,
                         kept |-> kept, trace |-> trace], lines[i], i)
     IN /\ skipBlock' = st.skipBlock
        /\ filteredLines' = st.filteredLines
        /\ kept' = st.kept
        /\ trace' = st.trace
  /\ i' = i + 1
  /\ UNCHANGED <<input, content, lines, fpc, filterResult, pass>>
  /\ UNCHANGED <<cvars, rvars>>

\* Line 135: the loop is over, join what was kept.
FilterReturn ==
  /\ fpc = "loop"
  /\ i > Len(lines)
  /\ filterResult' = Join(filteredLines)
  /\ fpc' = "returned"
  /\ UNCHANGED <<input, content, lines, i, skipBlock, filteredLines, kept, trace, pass>>
  /\ UNCHANGED <<cvars, rvars>>

\* The filter is called again on what it returned.
FilterAgain ==
  /\ fpc = "returned"
  /\ pass < MaxPasses
  /\ content' = filterResult
  /\ pass' = pass + 1
  /\ fpc' = "call"
  /\ UNCHANGED <<input, lines, i, skipBlock, filteredLines, kept, trace, filterResult>>
  /\ UNCHANGED <<cvars, rvars>>

\* --------------------------------------------- convertMdxToMarkdown, stepwise
\* The blocks fragments are written with.
SourceBlocks ==
  { <<TextLine>>, <<BulletLine>>, <<QuoteLine>>, <<MarkerLine, QuoteLine>>,
    <<StorybookImportLine>>, <<ReactImportLine>>,
    <<ImportOpenLine, ImportCloseLine>>, <<ExportLine>>,
    <<MetaLine>>, <<DemoLine>>, <<UnclosedLine>>, <<QuotedDemoLine>>,
    <<FenceLine, MetaLine, FenceLine>>,
    <<FenceLine, StorybookImportLine, FenceLine>>,
    <<FenceLine, ReactImportLine, DemoLine, FenceLine>>,
    <<FenceLine, MarkerLine, FenceLine>> }

\* A fragment file: its blocks, one blank line between two blocks, and the
\* line feed that ends the file.
RECURSIVE JoinBlocks(_)
JoinBlocks(bs) ==
  IF bs = <<>> THEN <<EmptyLine>>
  ELSE IF Len(bs) = 1 THEN Head(bs) \o <<EmptyLine>>
  ELSE Head(bs) \o <<EmptyLine>> \o JoinBlocks(Tail(bs))

FragmentTexts == { JoinBlocks(bs) : bs \in SeqsUpTo(SourceBlocks, 0, MaxBlocks) }

InitConvert ==
  /\ mdxContent \in FragmentTexts
  /\ cpc = "parse" /\ tree = <<>>
  /\ markdownContent = NoText /\ convResult = NoText /\ failed = FALSE
  /\ FilterIdle
  /\ RunIdle

\* Line 78, remark-parse + remark-mdx: the tree, or an exception thrown
\* inside the try block.
ConvParse ==
  /\ cpc = "parse"
  /\ LET parsed == ParseMdx(mdxContent)
     IN IF parsed.ok
        THEN tree' = parsed.children /\ cpc' = "transform"
        ELSE tree' = tree /\ cpc' = "thrown"
  /\ UNCHANGED <<mdxContent, markdownContent, convResult, failed>>
  /\ UNCHANGED <<fvars, rvars>>

\* Lines 66-74: the transformer drops nodes from the root's children.
ConvTransform ==
  /\ cpc = "transform"
  /\ tree' = NodeFilter(tree)
  /\ cpc' = "stringify"
  /\ UNCHANGED <<mdxContent, markdownContent, convResult, failed>>
  /\ UNCHANGED <<fvars, rvars>>

\* Lines 76-79: remark-stringify, String(result).
ConvStringify ==
  /\ cpc = "stringify"
  /\ markdownContent' = Stringify(tree)
  /\ cpc' = "postfilter"
  /\ UNCHANGED <<mdxContent, tree, convResult, failed>>
  /\ UNCHANGED <<fvars, rvars>>

\* Variant: the serialized text is returned without the line filter.
ConvPostFilterSkipped ==
  /\ cpc = "postfilter"
  /\ markdownContent' = markdownContent
  /\ cpc' = "return"
  /\ UNCHANGED <<mdxContent, tree, convResult, failed>>
  /\ UNCHANGED <<fvars, rvars>>

\* Line 82: the line filter on the serialized text.
ConvPostFilter ==
  /\ cpc = "postfilter"
  /\ markdownContent' = FilterAnnotated(markdownContent)
  /\ cpc' = "return"
  /\ UNCHANGED <<mdxContent, tree, convResult, failed>>
  /\ UNCHANGED <<fvars, rvars>>

\* Line 84.
ConvReturn ==
  /\ cpc = "return"
  /\ convResult' = markdownContent
  /\ cpc' = "returned"
  /\ UNCHANGED <<mdxContent, tree, markdownContent, failed>>
  /\ UNCHANGED <<fvars, rvars>>

\* Lines 85-92: the catch handler falls back to the line filter on the
\* text the function was called with.
ConvCatch ==
  /\ cpc = "thrown"
  /\ failed' = TRUE
  /\ convResult' = CatchResult(Source(mdxContent))
  /\ cpc' = "returned"
  /\ UNCHANGED <<mdxContent, tree, markdownContent>>
  /\ UNCHANGED <<fvars, rvars>>

NextConvert ==
  \/ ConvParse \/ ConvTransform \/ ConvStringify \/ ConvPostFilter
  \/ ConvReturn \/ ConvCatch

SpecConvert == InitConvert /\ [][NextConvert]_vars

NextFilter == FilterEnter \/ FilterIterate \/ FilterReturn \/ FilterAgain

SpecFilter == InitFilter /\ [][NextFilter]_vars

\* --------------------------------------------- concatenateDocumentation
FileA == <<"a", ".", "m", "d", "x">>
FileB == <<"b", ".", "m", "d", "x">>
FileZ == <<"z", ".", "m", "d", "x">>
FileNotes == <<"a", ".", "t", "x", "t">>

FileNames == [c \in Categories |->
  IF c = "background" THEN {FileA, FileB} ELSE {FileZ, FileNotes}]

\* The fragments the directories hold: plain text; a "For Humans only"
\* block before a list; an unclosed tag before a "For Humans only" block;
\* the same without the line feed at the end of the file, so that the block
\* runs to the end of the text; a blockquote.
PlainFragment == JoinBlocks(<< <<TextLine>> >>)
HumansFragment == JoinBlocks(<< <<MarkerLine, QuoteLine>>, <<BulletLine>> >>)
MalformedFragment == JoinBlocks(<< <<UnclosedLine>>, <<MarkerLine, QuoteLine>> >>)
UnterminatedFragment == <<UnclosedLine, EmptyLine, MarkerLine, QuoteLine>>
QuoteFragment == JoinBlocks(<< <<QuoteLine>> >>)

\* A directory entry: a file with its text, or an entry readFile fails on
\* (a directory of that name, a file without read permission).
File(text) == [readable |-> TRUE, text |-> text]
Unreadable == [readable |-> FALSE, text |-> EmptyString]

Entries == {File(PlainFragment), File(HumansFragment), File(MalformedFragment),
            File(UnterminatedFragment), File(QuoteFragment), Unreadable}

DirStates(names) ==
  {[exists |-> FALSE, files |-> <<>>]} \cup
  { [exists |-> TRUE, files |-> f] :
      f \in { g \in UNION { [S -> Entries] : S \in SUBSET names } :
                \A n \in DOMAIN g : ~IsMdxFile(n) => g[n] = File(PlainFragment) } }

\* The orders readdir may list a directory in.
Listings(names) ==
  { l \in [1..Cardinality(names) -> names] :
      \A n1 \in DOMAIN l : \A n2 \in DOMAIN l : l[n1] = l[n2] => n1 = n2 }

Init ==
  /\ dirs \in [Categories -> UNION { DirStates(FileNames[c]) : c \in Categories }]
  /\ \A c \in Categories : dirs[c] \in DirStates(FileNames[c])
  /\ outputFile = NoFile
  /\ RunStart
  /\ runs = 1 /\ prevListed = NoListing /\ prevOutput = NoFile
  /\ FilterIdle /\ ConvertIdle

FragmentOf(c, file) == [cat |-> c, file |-> file]

\* Lines 143-159: the buffer starts with the banner.
Begin ==
  /\ pc = "start"
  /\ concatenatedContent' = <<Chunk("banner", "", <<>>, Banner)>>
  /\ totalFiles' = 0
  /\ cat' = "background"
  /\ pc' = "readdir"
  /\ UNCHANGED <<dirs, outputFile, fileIdx, listed, mdxFiles, fileContent,
                 exitCode, readLog, convLog, writeCalls, runs, prevListed, prevOutput>>
  /\ UNCHANGED <<fvars, cvars>>

\* Lines 163-166, 195-198: list the directory, keep the .mdx names, sort.
Readdir ==
  /\ pc = "readdir"
  /\ dirs[cat].exists
  /\ \E l \in Listings(DOMAIN dirs[cat].files) :
       /\ listed' = [listed EXCEPT ![cat] = l]
       /\ mdxFiles' = [mdxFiles EXCEPT ![cat] = MdxFilesOf(l)]
  /\ pc' = "header"
  /\ UNCHANGED <<dirs, outputFile, cat, fileIdx, fileContent,
                 concatenatedContent, totalFiles, exitCode, readLog, convLog,
                 writeCalls, runs, prevListed, prevOutput>>
  /\ UNCHANGED <<fvars, cvars>>

\* Variant: the failure of readdir reaches the outer catch.
ReaddirThrowsFatal ==
  /\ pc = "readdir"
  /\ ~dirs[cat].exists
  /\ pc' = "exited"
  /\ exitCode' = "1"
  /\ UNCHANGED <<dirs, outputFile, cat, fileIdx, listed, mdxFiles, fileContent,
                 concatenatedContent, totalFiles, readLog, convLog,
                 writeCalls, runs, prevListed, prevOutput>>
  /\ UNCHANGED <<fvars, cvars>>

\* Lines 163/189-191, 195/221-223: readdir throws, the category's catch logs.
ReaddirThrows ==
  /\ pc = "readdir"
  /\ ~dirs[cat].exists
  /\ pc' = "next"
  /\ UNCHANGED <<dirs, outputFile, cat, fileIdx, listed, mdxFiles, fileContent,
                 concatenatedContent, totalFiles, exitCode, readLog, convLog,
                 writeCalls, runs, prevListed, prevOutput>>
  /\ UNCHANGED <<fvars, cvars>>

\* Variant: the header is appended whatever the directory lists.
HeaderAlways ==
  /\ pc = "header"
  /\ concatenatedContent' =
       Append(concatenatedContent, Chunk("header", cat, <<>>, HeaderOf(cat)))
  /\ fileIdx' = 1
  /\ pc' = "loop"
  /\ UNCHANGED <<dirs, outputFile, cat, listed, mdxFiles, fileContent,
                 totalFiles, exitCode, readLog, convLog, writeCalls, runs,
                 prevListed, prevOutput>>
  /\ UNCHANGED <<fvars, cvars>>

\* Lines 168-175, 200-207: the header, when there is a fragment.
Header ==
  /\ pc = "header"
  /\ IF Len(mdxFiles[cat]) > 0
     THEN /\ concatenatedContent' =
               Append(concatenatedContent, Chunk("header", cat, <<>>, HeaderOf(cat)))
          /\ fileIdx' = 1
          /\ pc' = "loop"
     ELSE /\ UNCHANGED <<concatenatedContent, fileIdx>>
          /\ pc' = "next"
  /\ UNCHANGED <<dirs, outputFile, cat, listed, mdxFiles, fileContent,
                 totalFiles, exitCode, readLog, convLog, writeCalls, runs,
                 prevListed, prevOutput>>
  /\ UNCHANGED <<fvars, cvars>>

CurrentFile == mdxFiles[cat][fileIdx]

\* Lines 181, 213: readFile.
ReadFile ==
  /\ pc = "loop"
  /\ fileIdx <= Len(mdxFiles[cat])
  /\ dirs[cat].files[CurrentFile].readable
  /\ fileContent' = dirs[cat].files[CurrentFile].text
  /\ readLog' = Append(readLog, FragmentOf(cat, CurrentFile))
  /\ pc' = "convert"
  /\ UNCHANGED <<dirs, outputFile, cat, fileIdx, listed, mdxFiles,
                 concatenatedContent, totalFiles, exitCode, convLog,
                 writeCalls, runs, prevListed, prevOutput>>
  /\ UNCHANGED <<fvars, cvars>>

\* Lines 181/189-191, 213/221-223: readFile throws, the category's catch
\* logs and the category ends there.
ReadFileThrows ==
  /\ pc = "loop"
  /\ fileIdx <= Len(mdxFiles[cat])
  /\ ~dirs[cat].files[CurrentFile].readable
  /\ readLog' = Append(readLog, FragmentOf(cat, CurrentFile))
  /\ pc' = "next"
  /\ UNCHANGED <<dirs, outputFile, cat, fileIdx, listed, mdxFiles, fileContent,
                 concatenatedContent, totalFiles, exitCode, convLog,
                 writeCalls, runs, prevListed, prevOutput>>
  /\ UNCHANGED <<fvars, cvars>>

\* Variant: convertMdxToMarkdown has no catch, the parser's exception
\* reaches the category's catch.
ConvertThrowing ==
  /\ pc = "convert"
  /\ convLog' = Append(convLog, FragmentOf(cat, CurrentFile))
  /\ IF ParseMdx(fileContent).ok
     THEN /\ fileContent' = convertMdxToMarkdown(fileContent)
          /\ skipBlock' = LastSkipBlock(fileContent)
          /\ pc' = "append"
     ELSE /\ UNCHANGED <<fileContent, skipBlock>>
          /\ pc' = "next"
  /\ UNCHANGED <<dirs, outputFile, cat, fileIdx, listed, mdxFiles,
                 concatenatedContent, totalFiles, exitCode, readLog,
                 writeCalls, runs, prevListed, prevOutput>>
  /\ UNCHANGED <<input, content, lines, i, filteredLines, kept, trace, fpc,
                 filterResult, pass>>
  /\ UNCHANGED cvars

\* Lines 182, 214.
Convert ==
  /\ pc = "convert"
  /\ fileContent' = convertMdxToMarkdown(fileContent)
  /\ skipBlock' = LastSkipBlock(fileContent)
  /\ convLog' = Append(convLog, FragmentOf(cat, CurrentFile))
  /\ pc' = "append"
  /\ UNCHANGED <<dirs, outputFile, cat, fileIdx, listed, mdxFiles,
                 concatenatedContent, totalFiles, exitCode, readLog,
                 writeCalls, runs, prevListed, prevOutput>>
  /\ UNCHANGED <<input, content, lines, i, filteredLines, kept, trace, fpc,
                 filterResult, pass>>
  /\ UNCHANGED cvars

\* Lines 184-186, 216-218: the text, then "\n\n".
AppendFragment ==
  /\ pc = "append"
  /\ concatenatedContent' = concatenatedContent \o
       << Chunk("fragment", cat, CurrentFile, fileContent),
          Chunk("separator", cat, CurrentFile, Separator) >>
  /\ totalFiles' = totalFiles + 1
  /\ fileIdx' = fileIdx + 1
  /\ pc' = "loop"
  /\ UNCHANGED <<dirs, outputFile, cat, listed, mdxFiles, fileContent,
                 exitCode, readLog, convLog, writeCalls, runs, prevListed, prevOutput>>
  /\ UNCHANGED <<fvars, cvars>>

\* Lines 177-187, 209-219: the for loop is over.
LoopEnd ==
  /\ pc = "loop"
  /\ fileIdx > Len(mdxFiles[cat])
  /\ pc' = "next"
  /\ UNCHANGED <<dirs, outputFile, cat, fileIdx, listed, mdxFiles, fileContent,
                 concatenatedContent, totalFiles, exitCode, readLog, convLog,
                 writeCalls, runs, prevListed, prevOutput>>
  /\ UNCHANGED <<fvars, cvars>>

\* Lines 191-194, 223-225: after background come the anti-patterns, then
\* the test of the buffer.
NextCategory ==
  /\ pc = "next"
  /\ IF cat = "background"
     THEN cat' = "anti-patterns" /\ pc' = "readdir"
     ELSE cat' = cat /\ pc' = "check"
  /\ UNCHANGED <<dirs, outputFile, fileIdx, listed, mdxFiles, fileContent,
                 concatenatedContent, totalFiles, exitCode, readLog, convLog,
                 writeCalls, runs, prevListed, prevOutput>>
  /\ UNCHANGED <<fvars, cvars>>

\* Lines 225-228: return when the buffer holds white space only.
CheckContent ==
  /\ pc = "check"
  /\ IF IsBlankString(Flatten(concatenatedContent))
     THEN pc' = "done" /\ exitCode' = "0"
     ELSE pc' = "mkdir" /\ exitCode' = exitCode
  /\ UNCHANGED <<dirs, outputFile, cat, fileIdx, listed, mdxFiles, fileContent,
                 concatenatedContent, totalFiles, readLog, convLog,
                 writeCalls, runs, prevListed, prevOutput>>
  /\ UNCHANGED <<fvars, cvars>>

\* Line 231.
Mkdir ==
  /\ pc = "mkdir"
  /\ pc' = "write"
  /\ UNCHANGED <<dirs, outputFile, cat, fileIdx, listed, mdxFiles, fileContent,
                 concatenatedContent, totalFiles, exitCode, readLog, convLog,
                 writeCalls, runs, prevListed, prevOutput>>
  /\ UNCHANGED <<fvars, cvars>>

\* Lines 231/239-242: mkdir throws, the outer catch exits with status 1.
MkdirThrows ==
  /\ pc = "mkdir"
  /\ pc' = "exited"
  /\ exitCode' = "1"
  /\ UNCHANGED <<dirs, outputFile, cat, fileIdx, listed, mdxFiles, fileContent,
                 concatenatedContent, totalFiles, readLog, convLog,
                 writeCalls, runs, prevListed, prevOutput>>
  /\ UNCHANGED <<fvars, cvars>>

\* Lines 234-238.
WriteFile ==
  /\ pc = "write"
  /\ outputFile' = [exists |-> TRUE, data |-> Flatten(concatenatedContent)]
  /\ writeCalls' = writeCalls + 1
  /\ pc' = "done"
  /\ exitCode' = "0"
  /\ UNCHANGED <<dirs, cat, fileIdx, listed, mdxFiles, fileContent,
                 concatenatedContent, totalFiles, readLog, convLog, runs,
                 prevListed, prevOutput>>
  /\ UNCHANGED <<fvars, cvars>>

\* Lines 234/239-242: writeFile throws, the outer catch exits with status 1.
WriteFileThrows ==
  /\ pc = "write"
  /\ writeCalls' = writeCalls + 1
  /\ pc' = "exited"
  /\ exitCode' = "1"
  /\ UNCHANGED <<dirs, outputFile, cat, fileIdx, listed, mdxFiles, fileContent,
                 concatenatedContent, totalFiles, readLog, convLog, runs,
                 prevListed, prevOutput>>
  /\ UNCHANGED <<fvars, cvars>>

\* Lines 246-248: the script is run again, over the same directories.
RunAgain ==
  /\ pc \in {"done", "exited"}
  /\ runs < MaxRuns
  /\ runs' = runs + 1
  /\ prevListed' = listed
  /\ prevOutput' = outputFile
  /\ pc' = "start" /\ cat' = "background" /\ fileIdx' = 0
  /\ listed' = NoListing /\ mdxFiles' = NoListing
  /\ fileContent' = EmptyString /\ concatenatedContent' = <<>>
  /\ totalFiles' = 0 /\ exitCode' = "none"
  /\ readLog' = <<>> /\ convLog' = <<>> /\ writeCalls' = 0
  /\ skipBlock' = FALSE
  /\ UNCHANGED <<dirs, outputFile>>
  /\ UNCHANGED <<input, content, lines, i, filteredLines, kept, trace, fpc,
                 filterResult, pass>>
  /\ UNCHANGED cvars

Next ==
  \/ Begin \/ Readdir \/ ReaddirThrows \/ Header \/ ReadFile \/ ReadFileThrows
  \/ Convert \/ AppendFragment \/ LoopEnd \/ NextCategory \/ CheckContent
  \/ Mkdir \/ MkdirThrows \/ WriteFile \/ WriteFileThrows \/ RunAgain

Spec == Init /\ [][Next]_vars

\* ------------------------------------------------------------------ claims
\* ---- claims about concatenateDocumentation
\* The .mdx fragments a category directory lists.
ListedFragments(c) ==
  IF dirs[c].exists THEN { n \in DOMAIN dirs[c].files : IsMdxFile(n) } ELSE {}

Occurrences(sq, x) == Cardinality({ j \in DOMAIN sq : sq[j] = x })

Written == pc = "done" /\ writeCalls = 1

\* C3 as stated: when no category directory lists a .mdx fragment, writeFile
\* is never called, no output file appears and the exit status is not 1.
C3_NoArtifactWhenEmpty ==
  (\A c \in Categories : ListedFragments(c) = {}) =>
    /\ writeCalls = 0
    /\ ~outputFile.exists
    /\ exitCode # "1"

\* The chunks of fragment file of category c in the buffer.
ChunksOf(c, file) ==
  { j \in DOMAIN concatenatedContent :
      /\ concatenatedContent[j].kind = "fragment"
      /\ concatenatedContent[j].cat = c
      /\ concatenatedContent[j].file = file }

\* C7 as stated: in a run that wrote the output, every listed .mdx fragment
\* was read once and converted once, and its cleaned text is in the output
\* exactly once, with the blank-line separator right after it.
C7_EveryFragmentOnce ==
  Written =>
    \A c \in Categories : \A file \in ListedFragments(c) :
      /\ Occurrences(readLog, FragmentOf(c, file)) = 1
      /\ Occurrences(convLog, FragmentOf(c, file)) = 1
      /\ Cardinality(ChunksOf(c, file)) = 1
      /\ \A j \in ChunksOf(c, file) :
           /\ dirs[c].files[file].readable
           /\ concatenatedContent[j].str =
                convertMdxToMarkdown(dirs[c].files[file].text)
           /\ j < Len(concatenatedContent)
           /\ concatenatedContent[j + 1].kind = "separator"
           /\ concatenatedContent[j + 1].str = Separator

\* The headers and fragments of the buffer, in order.
Sections ==
  SelectSeq(concatenatedContent, LAMBDA ch : ch.kind \in {"header", "fragment"})

\* C8: in the written output the Background header and fragments come
\* before the Anti-patterns header and fragments, a category's header before
\* its fragments, and a category's fragments in ascending order of name.
C8_Ordered ==
  Written =>
    /\ outputFile.exists /\ outputFile.data = Flatten(concatenatedContent)
    /\ concatenatedContent[1].kind = "banner"
    /\ \A j1 \in DOMAIN Sections : \A j2 \in DOMAIN Sections :
         j1 < j2 =>
           IF Sections[j1].cat # Sections[j2].cat
           THEN Sections[j1].cat = "background"
           ELSE /\ Sections[j2].kind = "fragment"
                /\ Sections[j1].kind = "fragment" =>
                     NameLess(Sections[j1].file, Sections[j2].file)

\* The directories {b.mdx, a.mdx}, listed in this order, and {z.mdx}: the
\* output is header, a, b, header, z.
C8_Witness ==
  /\ Written
  /\ listed["background"] = <<FileB, FileA>>
  /\ [j \in DOMAIN Sections |-> <<Sections[j].cat, Sections[j].file>>] =
       << <<"background", <<>> >>, <<"background", FileA>>,
          <<"background", FileB>>, <<"anti-patterns", <<>> >>,
          <<"anti-patterns", FileZ>> >>

\* C9: a run that writes the output over the output of an earlier run of
\* the same directories writes the same bytes, whatever order readdir
\* listed the files in.
C9_Reproducible ==
  (runs > 1 /\ Written /\ prevOutput.exists) => outputFile.data = prevOutput.data

\* Both runs wrote, and readdir listed the two background fragments in
\* another order in the second run.
C9_Witness ==
  /\ runs = 2 /\ Written /\ prevOutput.exists
  /\ Len(mdxFiles["background"]) = 2
  /\ listed["background"] # prevListed["background"]
  /\ \A file \in ListedFragments("background") :
       dirs["background"].files[file].readable

\* ---- claims about the line filter
Range(f) == { f[k] : k \in DOMAIN f }

FirstPassReturned == fpc = "returned" /\ pass = 1

\* lines[m] is a marker, lines[m+1..t-1] all start with ">" (trimmed), and
\* lines[t] is blank or does not start with ">" (trimmed).
HumansOnlyBlock(ls, m, t) ==
  /\ m < t
  /\ IsHumansOnlyMarker(ls[m])
  /\ \A k \in (m + 1)..(t - 1) : StartsWith(Trim(ls[k]), BlockquotePrefix)
  /\ EndsSkipBlock(ls[t])

\* C2 as stated: for every marker line followed by ">" lines and a terminating
\* line (blank or not starting with ">"), the lines from the marker up to the
\* terminating line are not in the output and the terminating line is.
C2_TerminatorAlwaysKept ==
  FirstPassReturned =>
    \A m \in 1..Len(lines) : \A t \in 1..Len(lines) :
      HumansOnlyBlock(lines, m, t) =>
        /\ \A k \in m..(t - 1) : k \notin Range(kept)
        /\ t \in Range(kept)

\* C2 amended: the lines from the marker up to the terminating line are not in
\* the output; the terminating line is in the output exactly when it is
\* neither a Storybook import line nor a "<Meta " line.
C2_BlockRemoved ==
  FirstPassReturned =>
    \A m \in 1..Len(lines) : \A t \in 1..Len(lines) :
      HumansOnlyBlock(lines, m, t) =>
        /\ \A k \in m..(t - 1) : k \notin Range(kept)
        /\ (t \in Range(kept)) <=> ~(IsStorybookImport(lines[t]) \/ IsMeta(lines[t]))

\* A marker, at least one ">" line, and a terminating line that was kept.
C2_Witness ==
  /\ FirstPassReturned
  /\ \E m \in 1..Len(lines) : \E t \in 1..Len(lines) :
       /\ HumansOnlyBlock(lines, m, t)
       /\ t > m + 1
       /\ t \in Range(kept)
       /\ filterResult = <<lines[t]>>

\* ---- claims about convertMdxToMarkdown
Returned == cpc = "returned"

\* The blocks of the text the function was called with.
SourceNodes == ScanFlow(Split(mdxContent), 1, <<>>)

NodesOfType(T) ==
  { k \in 1..Len(SourceNodes) : SourceNodes[k].type \in T /\ ValidNode(SourceNodes[k]) }

NodePositions(k) == SourceNodes[k].first .. SourceNodes[k].last

\* Source line p is in the output, unchanged.
PresentUnchanged(p) ==
  \E j \in 1..Len(convResult.str) :
    convResult.src[j] = p /\ convResult.str[j] = mdxContent[p]

Absent(p) == \A j \in 1..Len(convResult.src) : convResult.src[j] # p

\* C1: the call always returns a string, and when the parse - filter -
\* serialize chain fails it returns the line filter's result on the text it
\* was called with.
C1_FallbackResult ==
  /\ Returned => Len(convResult.str) >= 1
  /\ (Returned /\ ~ParseMdx(mdxContent).ok) =>
       /\ failed
       /\ convResult.str = removeHumanOnlyBlockquotesManual(mdxContent)

\* An exception of the chain never leaves the function: the step after it
\* is the handler's return.
C1_Caught == (cpc = "thrown") => (cpc' = "returned" /\ failed')

C1_TotalWithFallback == []C1_FallbackResult /\ [][C1_Caught]_vars

\* The chain failed on a text with a "For Humans only" block, which the
\* fallback removed.
C1_Witness ==
  /\ Returned /\ failed
  /\ \E k \in 1..Len(mdxContent) : IsHumansOnlyMarker(mdxContent[k])
  /\ Len(convResult.str) < Len(mdxContent)

\* C4 as stated: no source line of a top-level import/export declaration is
\* in the output, whether the text parsed or not.
C4_NoDeclarationLine ==
  Returned =>
    \A k \in NodesOfType({"mdxjsEsm"}) : \A p \in NodePositions(k) : Absent(p)

\* C4 amended: when the text parses, no source line of a top-level
\* import/export declaration is in the output; when it does not, no line
\* that starts with "import " and contains "@storybook" is.
C4_NoDeclarationLineWhenParsed ==
  /\ (Returned /\ ~failed) =>
       \A k \in NodesOfType({"mdxjsEsm"}) : \A p \in NodePositions(k) : Absent(p)
  /\ (Returned /\ failed) =>
       \A p \in 1..Len(mdxContent) : IsStorybookImport(mdxContent[p]) => Absent(p)

\* A parsed text with a declaration over two lines, one that does not
\* mention @storybook, and a block that stayed.
C4_Witness ==
  /\ Returned /\ ~failed
  /\ \E k \in NodesOfType({"mdxjsEsm"}) : SourceNodes[k].last > SourceNodes[k].first
  /\ \E k \in NodesOfType({"mdxjsEsm"}) :
       \A p \in NodePositions(k) : ~Includes(mdxContent[p], StorybookToken)
  /\ \E j \in 1..Len(convResult.src) : convResult.src[j] > 0

PlainTypes == {"paragraph", "list", "blockquote", "code"}

\* The source positions in the output are in source order.
InSourceOrder ==
  \A j1 \in 1..Len(convResult.src) : \A j2 \in 1..Len(convResult.src) :
    (j1 < j2 /\ convResult.src[j1] > 0 /\ convResult.src[j2] > 0)
      => convResult.src[j1] < convResult.src[j2]

\* C5 as stated: with a top-level component block in the text, the output
\* has none of the block's lines and has every line of every plain-Markdown
\* block, unchanged and in source order.
C5_SiblingsUnchanged ==
  (Returned /\ NodesOfType({"mdxJsxFlowElement"}) # {}) =>
    /\ \A k \in NodesOfType({"mdxJsxFlowElement"}) :
         \A p \in NodePositions(k) : Absent(p)
    /\ \A k \in NodesOfType(PlainTypes) :
         \A p \in NodePositions(k) : PresentUnchanged(p)
    /\ InSourceOrder

\* The serialized form of source block k is in the output.
PresentSerialized(k) ==
  LET ser == StringifyNode(SourceNodes[k])
  IN \A n \in 1..Len(ser.str) :
       ser.src[n] > 0 =>
         \E j \in 1..Len(convResult.str) :
           convResult.src[j] = ser.src[n] /\ convResult.str[j] = ser.str[n]

\* The line filter drops no line of the serialized form of source block k.
FilterLeavesAlone(k) ==
  LET ser == StringifyNode(SourceNodes[k])
  IN removeHumanOnlyBlockquotesManual(ser.str) = ser.str

\* C5 amended: when a text with a top-level component block parses, the
\* output has none of the block's lines, and every plain-Markdown block
\* that the line filter leaves alone is there as the serializer writes it,
\* in source order.
C5_SiblingsSerialized ==
  (Returned /\ ~failed /\ NodesOfType({"mdxJsxFlowElement"}) # {}) =>
    /\ \A k \in NodesOfType({"mdxJsxFlowElement"}) :
         \A p \in NodePositions(k) : Absent(p)
    /\ \A k \in NodesOfType(PlainTypes) :
         FilterLeavesAlone(k) => PresentSerialized(k)
    /\ InSourceOrder

\* A component other than Meta between a list and a paragraph, both in the
\* output, the list with the serializer's bullet.
C5_Witness ==
  /\ Returned /\ ~failed
  /\ \E k \in NodesOfType({"mdxJsxFlowElement"}) :
       /\ SourceNodes[k].lines = <<DemoLine>>
       /\ k > 1 /\ k < Len(SourceNodes)
       /\ SourceNodes[k - 1].type = "list"
       /\ SourceNodes[k + 1].type = "paragraph"
       /\ PresentSerialized(k - 1) /\ PresentSerialized(k + 1)
       /\ ~PresentUnchanged(SourceNodes[k - 1].first)

\* C6 as stated: every line of a code block's literal text is in the
\* output, unchanged.
C6_CodeLinesSurvive ==
  Returned =>
    \A k \in NodesOfType({"code"}) :
      \A p \in (SourceNodes[k].first + 1)..(SourceNodes[k].last - 1) :
        PresentUnchanged(p)

\* C10: the line filter run on its own output returns it unchanged.
C10_Idempotent ==
  (fpc = "returned" /\ pass > 1) => filterResult = content

\* The second pass has returned, and the first pass had removed a whole
\* "For Humans only" block and kept lines around it.
C10_Witness ==
  /\ fpc = "returned" /\ pass = 2
  /\ Len(content) < Len(input)
  /\ \E m \in 1..Len(input) : \E t \in 1..Len(input) :
       HumansOnlyBlock(input, m, t) /\ t > m + 1
  /\ Len(content) > 1

\* ---- the five-step NORMAL/SKIPPING machine the filter is compared with
\* One line of the machine: (1) an import of the tooling namespace and (2) a
\* Meta tag are dropped, the state stays; (3) not skipping and a marker:
\* skip, drop; (4) skipping: a blank line or one that does not start with
\* ">" ends the skipping and is kept, any other line is dropped; (5) keep.
MachineStep(m, line) ==
  IF IsStorybookImport(line) THEN [m EXCEPT !.states = Append(@, m.state)]
  ELSE IF IsMeta(line) THEN [m EXCEPT !.states = Append(@, m.state)]
  ELSE IF m.state = "NORMAL" /\ IsHumansOnlyMarker(line) THEN
    [m EXCEPT !.state = "SKIPPING", !.states = Append(@, "SKIPPING")]
  ELSE IF m.state = "SKIPPING" THEN
    IF Trim(line) = <<>> \/ ~StartsWith(Trim(line), <<">">>)
    THEN [m EXCEPT !.state = "NORMAL", !.out = Append(@, line),
                   !.states = Append(@, "NORMAL")]
    ELSE [m EXCEPT !.states = Append(@, "SKIPPING")]
  ELSE [m EXCEPT !.out = Append(@, line), !.states = Append(@, "NORMAL")]

RECURSIVE MachineRun(_, _)
MachineRun(ls, n) ==
  IF n = 0 THEN [state |-> "NORMAL", out |-> <<>>, states |-> <<>>]
  ELSE MachineStep(MachineRun(ls, n - 1), ls[n])

StateName(b) == IF b THEN "SKIPPING" ELSE "NORMAL"

\* C14: after every iteration the filter has kept the lines the five-step
\* machine has kept and has passed through the same skip states, and it
\* returns what the machine has kept.
C14_RefinesMachine ==
  /\ fpc = "loop" =>
       LET m == MachineRun(lines, i - 1)
       IN /\ filteredLines = m.out
          /\ StateName(skipBlock) = m.state
          /\ [n \in 1..Len(trace) |-> StateName(trace[n])] = m.states
  /\ fpc = "returned" =>
       filterResult = Join(MachineRun(lines, Len(lines)).out)

\* A marker line met while skipping has been passed, the filter still skips.
C14_Witness ==
  /\ fpc = "loop" /\ i > 3 /\ skipBlock
  /\ \E n \in 2..(i - 1) :
       /\ IsHumansOnlyMarker(lines[n])
       /\ trace[n - 1] /\ trace[n]
  /\ filteredLines # <<>>

\* C19: a pass that ends while skipping has kept no line after the last
\* marker line, and returns just the lines it kept in the loop.
C19_UnterminatedBlockDropsRest ==
  (fpc = "returned" /\ skipBlock) =>
    /\ \E m \in 1..Len(lines) :
         /\ IsHumansOnlyMarker(lines[m])
         /\ \A t \in (m + 1)..Len(lines) :
              ~IsHumansOnlyMarker(lines[t]) /\ t \notin Range(kept)
    /\ filterResult = Join(filteredLines)
    /\ Len(filteredLines) = Len(kept)

\* The pass ended while skipping, with lines after the last marker and a
\* line kept before it.
C19_Witness ==
  /\ FirstPassReturned /\ skipBlock
  /\ kept # <<>>
  /\ \E m \in 2..(Len(lines) - 2) :
       /\ IsHumansOnlyMarker(lines[m])
       /\ \A t \in (m + 1)..Len(lines) : ~IsHumansOnlyMarker(lines[t])

\* No line of the text is a marker, a Meta tag or a Storybook import.
NothingToDrop(ls) ==
  \A n \in 1..Len(ls) :
    ~(IsHumansOnlyMarker(ls[n]) \/ IsMeta(ls[n]) \/ IsStorybookImport(ls[n]))

\* C20: the lines the filter keeps are lines of the input, unchanged and in
\* the order of the input, the result is these lines joined, and a text
\* with no marker, Meta or Storybook import line is returned as it is.
C20_DeletesWholeLines ==
  fpc = "returned" =>
    /\ Len(kept) = Len(filteredLines)
    /\ \A n \in 1..Len(kept) :
         /\ kept[n] \in 1..Len(lines)
         /\ filteredLines[n] = lines[kept[n]]
         /\ n > 1 => kept[n - 1] < kept[n]
    /\ filterResult = Join(filteredLines)
    /\ NothingToDrop(lines) => filterResult = content

\* A pass that dropped lines and kept an indented line, and (second pass)
\* one that had nothing to drop.
C20_Witness ==
  /\ fpc = "returned" /\ pass = 2
  /\ NothingToDrop(lines)
  /\ Len(content) < Len(input)
  /\ \E n \in 1..Len(filteredLines) : filteredLines[n] = IndentedQuoteLine

\* ---- more claims about convertMdxToMarkdown
\* C13: what convertMdxToMarkdown returns is what the line filter returns,
\* for the serialized text when the fragment parsed and for the fragment's
\* text when it did not, and no line of it starts, trimmed, with the marker.
C13_ResultIsFiltered ==
  Returned =>
    /\ convResult.str =
         removeHumanOnlyBlockquotesManual(
           IF failed THEN mdxContent ELSE Stringify(tree).str)
    /\ \A n \in 1..Len(convResult.str) : ~IsHumansOnlyMarker(convResult.str[n])

\* The fragment parsed, the serialized text held a marker line, and
\* something is left of it.
C13_Witness ==
  /\ Returned /\ ~failed
  /\ \E n \in 1..Len(Stringify(tree).str) :
       IsHumansOnlyMarker(Stringify(tree).str[n])
  /\ Len(convResult.str) > 1

RemovedTypes == {"mdxjsEsm", "mdxJsxFlowElement"}

Transformed == cpc \in {"stringify", "postfilter", "return"} \/ (Returned /\ ~failed)

\* C17: after the transformer the root's children are the parsed top-level
\* nodes that are neither declarations nor embedded components, each as it
\* was parsed (with the nodes below it), in the order of the source.
C17_TopLevelOnly ==
  Transformed =>
    LET parsed == ParseMdx(mdxContent).children
    IN /\ \A j \in 1..Len(tree) :
            /\ tree[j].type \notin RemovedTypes
            /\ \E k \in 1..Len(parsed) : tree[j] = parsed[k]
            /\ j > 1 => tree[j - 1].first < tree[j].first
       /\ \A k \in 1..Len(parsed) :
            parsed[k].type \notin RemovedTypes =>
              \E j \in 1..Len(tree) : tree[j] = parsed[k]

\* A top-level component was removed, a component inside a blockquote is
\* below a node that was kept, and another node was kept.
C17_Witness ==
  /\ cpc = "stringify"
  /\ \E k \in 1..Len(ParseMdx(mdxContent).children) :
       ParseMdx(mdxContent).children[k].type = "mdxJsxFlowElement"
  /\ Len(tree) = 2
  /\ \E j \in 1..Len(tree) :
       /\ tree[j].type = "blockquote"
       /\ \E n \in 1..Len(tree[j].children) :
            tree[j].children[n].type = "mdxJsxFlowElement"

\* ---- more claims about concatenateDocumentation
\* C11: the exit status is 1 exactly when the run ended in the outer catch,
\* which is entered from mkdir and writeFile only; a run that ended any
\* other way has written the output file, whatever directory was missing
\* and whatever fragment did not parse.
C11_ExitOneOnlyHere ==
  /\ exitCode = "1" <=> pc = "exited"
  /\ pc = "done" =>
       /\ exitCode = "0" /\ writeCalls = 1
       /\ outputFile.exists /\ outputFile.data = Flatten(concatenatedContent)

C11_EntersCatch ==
  (pc # "exited" /\ pc' = "exited") => pc \in {"mkdir", "write"}

C11_OnlyArtifactFailuresFatal == []C11_ExitOneOnlyHere /\ [][C11_EntersCatch]_vars

\* A fragment of category c that did not parse is in the buffer.
FallbackChunk(c) ==
  \E file \in ListedFragments(c) :
    /\ dirs[c].files[file].readable
    /\ ~ParseMdx(dirs[c].files[file].text).ok
    /\ ChunksOf(c, file) # {}

\* The Background directory is missing, a fragment of Anti-patterns did not
\* parse, and the output is written with exit status 0.
C11_Witness ==
  /\ Written /\ exitCode = "0" /\ outputFile.exists
  /\ ~dirs["background"].exists
  /\ FallbackChunk("anti-patterns")

\* The names of S in ascending order.
Ascending(S) ==
  CHOOSE l \in Listings(S) :
    \A a \in DOMAIN l : \A b \in DOMAIN l : a < b => NameLess(l[a], l[b])

\* What the fragments names[k], names[k + 1], ... of category c add to the
\* buffer (the category ends at a fragment that cannot be read).
RECURSIVE FragmentChunks(_, _, _)
FragmentChunks(c, names, k) ==
  IF k > Len(names) THEN <<>>
  ELSE IF ~dirs[c].files[names[k]].readable THEN <<>>
  ELSE << Chunk("fragment", c, names[k],
                convertMdxToMarkdown(dirs[c].files[names[k]].text)),
          Chunk("separator", c, names[k], Separator) >>
       \o FragmentChunks(c, names, k + 1)

\* What category c adds to the buffer, from the directory alone.
SectionOf(c) ==
  IF ListedFragments(c) = {} THEN <<>>
  ELSE <<Chunk("header", c, <<>>, HeaderOf(c))>>
       \o FragmentChunks(c, Ascending(ListedFragments(c)), 1)

OtherCategory(c) == IF c = "background" THEN "anti-patterns" ELSE "background"

\* C12: a category whose directory is missing or lists no .mdx file has
\* neither header nor fragment in the buffer at any time, and the written
\* output is the banner followed by what the other category gives alone.
C12_EmptyCategoryLeavesNoTrace ==
  \A c \in Categories :
    ListedFragments(c) = {} =>
      /\ \A j \in DOMAIN concatenatedContent : concatenatedContent[j].cat # c
      /\ Written =>
           /\ concatenatedContent =
                <<Chunk("banner", "", <<>>, Banner)>> \o SectionOf(OtherCategory(c))
           /\ outputFile.data = Flatten(concatenatedContent)

\* Background exists without any fragment, Anti-patterns has one, and the
\* output is written with the Anti-patterns header and fragment.
C12_Witness ==
  /\ Written
  /\ dirs["background"].exists /\ ListedFragments("background") = {}
  /\ ChunksOf("anti-patterns", FileZ) # {}
  /\ \E j \in DOMAIN concatenatedContent :
       concatenatedContent[j] =
         Chunk("header", "anti-patterns", <<>>, HeaderOf("anti-patterns"))

\* The line filter and convertMdxToMarkdown with the filter started in
\* NORMAL (skipBlock = FALSE).
NormalStart ==
  [skipBlock |-> FALSE, filteredLines |-> <<>>, kept |-> <<>>, trace |-> <<>>]

FilterFromNormal(text) == FilterLoop(NormalStart, Split(text), 1)

FilteredText(text) ==
  LET parsed == ParseMdx(text)
  IN IF parsed.ok THEN Stringify(NodeFilter(parsed.children)).str ELSE text

CleanedFromNormal(text) == Join(FilterFromNormal(FilteredText(text)).filteredLines)

\* C15: whatever fragment was processed before, the text appended for a
\* fragment is what the conversion gives with the line filter started in
\* NORMAL, and skipBlock after a conversion is what such a call ends with.
C15_NoLeakAcrossFragments ==
  /\ \A j \in DOMAIN concatenatedContent :
       concatenatedContent[j].kind = "fragment" =>
         concatenatedContent[j].str =
           CleanedFromNormal(dirs[concatenatedContent[j].cat]
                               .files[concatenatedContent[j].file].text)
  /\ pc = "append" =>
       /\ fileContent = CleanedFromNormal(dirs[cat].files[CurrentFile].text)
       /\ skipBlock = FilterFromNormal(FilteredText(dirs[cat].files[CurrentFile].text)).skipBlock

\* The first fragment ended inside a block that was never terminated, and
\* the blockquote the next fragment starts with has been kept.
C15_Witness ==
  /\ pc = "append" /\ cat = "background" /\ fileIdx = 2
  /\ FilterFromNormal(FilteredText(dirs[cat].files[FileA].text)).skipBlock
  /\ dirs[cat].files[FileB].text = QuoteFragment
  /\ \E n \in 1..Len(fileContent) : fileContent[n] = QuoteLine

\* What the buffer holds, without the texts.
Layout(chunks) ==
  [j \in 1..Len(chunks) |->
    [kind |-> chunks[j].kind, cat |-> chunks[j].cat, file |-> chunks[j].file]]

\* A listed fragment that can be read does not parse.
SomeParseFailure ==
  \E c \in Categories : \E file \in ListedFragments(c) :
    dirs[c].files[file].readable /\ ~ParseMdx(dirs[c].files[file].text).ok

\* C16: with a fragment that does not parse, a run that reaches the end
\* writes the output; headers, fragments and separators are those the
\* directories' names give; the text of a fragment that did not parse is
\* its line-filtered original, the text of any other fragment is its own
\* conversion.
C16_ParseFailureContained ==
  (SomeParseFailure /\ pc = "done") =>
    /\ writeCalls = 1 /\ outputFile.exists
    /\ outputFile.data = Flatten(concatenatedContent)
    /\ Layout(concatenatedContent) =
         Layout(<<Chunk("banner", "", <<>>, Banner)>>
                \o SectionOf("background") \o SectionOf("anti-patterns"))
    /\ \A j \in DOMAIN concatenatedContent :
         concatenatedContent[j].kind = "fragment" =>
           LET text == dirs[concatenatedContent[j].cat]
                         .files[concatenatedContent[j].file].text
           IN concatenatedContent[j].str =
                IF ParseMdx(text).ok
                THEN removeHumanOnlyBlockquotesManual(
                       Stringify(NodeFilter(ParseMdx(text).children)).str)
                ELSE removeHumanOnlyBlockquotesManual(text)

\* a.mdx did not parse, b.mdx and z.mdx did, all three are in the output.
C16_Witness ==
  /\ Written
  /\ ListedFragments("background") = {FileA, FileB}
  /\ dirs["background"].files[FileA].readable
  /\ ~ParseMdx(dirs["background"].files[FileA].text).ok
  /\ dirs["background"].files[FileB].readable
  /\ ParseMdx(dirs["background"].files[FileB].text).ok
  /\ ChunksOf("background", FileA) # {} /\ ChunksOf("background", FileB) # {}
  /\ ChunksOf("anti-patterns", FileZ) # {}

\* C18 as stated: writeFile is called at most once in a run; when it has
\* been called the run is over, and every listed fragment of both
\* categories has been read, converted and appended.
C18_WriteOnceAfterEveryFragment ==
  /\ writeCalls <= 1
  /\ writeCalls >= 1 =>
       /\ pc \in {"done", "exited"}
       /\ \A c \in Categories : \A file \in ListedFragments(c) :
            /\ \E n \in DOMAIN readLog : readLog[n] = FragmentOf(c, file)
            /\ \E n \in DOMAIN convLog : convLog[n] = FragmentOf(c, file)
            /\ ChunksOf(c, file) # {}

====
